---------------------------- MODULE Spec2Model ----------------------------
(***************************************************************************)
(* A model of prosstt/simulation.py: the module trajectory builder         *)
(* (simulate_W, test_correlation), the branch mean-expression composer     *)
(* (simulate_branching_data, bifurc_adjust), the negative-binomial         *)
(* parameters (get_pr) and absolute-time sampling                          *)
(* (sample_data_with_absolute_times, assign_branches, pick_branch).        *)
(*                                                                         *)
(* Real numbers are modelled exactly: matrices hold integers (values on a  *)
(* grid), coefficients are rationals <<numerator, denominator>>, and a     *)
(* floating-point quotient is a rational whose denominator may be 0        *)
(* (n/0 is +inf or -inf, 0/0 is nan), as numpy produces them.              *)
(***************************************************************************)
EXTENDS Integers, Sequences, FiniteSets, TLC

(* ------------------------------ bounds --------------------------------- *)
\* longest diffusion trajectory drawn by simulate_W
MaxT == 3
\* most modules asked of simulate_W
MaxK == 3
\* largest maxloops argument tried
MaxMaxloops == 1
\* the retry counter of simulate_W is followed this far beyond maxloops
LoopSlack == 3

(* ------------------------- python helpers ------------------------------ *)
\* range(a, b)
Range(a, b) == a .. (b - 1)

\* sequence[i] with python's negative indices, for a container of length n
PyIndex(i, n) == IF i < 0 THEN n + i ELSE i

RECURSIVE SumOver(_, _)
SumOver(f, S) ==
    IF S = {} THEN 0
    ELSE LET x == CHOOSE y \in S : TRUE IN f[x] + SumOver(f, S \ {x})

(* ------------------------- real arithmetic ----------------------------- *)
\* A real is <<n, d>> with d >= 0: n/d when d > 0; with d = 0 it is what
\* numpy's float64 division by zero gives: +inf (n > 0), -inf (n < 0) or
\* nan (n = 0).
Rat(n, d) == IF d < 0 THEN <<-n, -d>> ELSE <<n, d>>

RInt(i) == <<i, 1>>

RAdd(x, y) == Rat(x[1] * y[2] + y[1] * x[2], x[2] * y[2])

RSub(x, y) == Rat(x[1] * y[2] - y[1] * x[2], x[2] * y[2])

RMul(x, y) == Rat(x[1] * y[1], x[2] * y[2])

\* x / y for finite x and y
RDiv(x, y) == Rat(x[1] * y[2], x[2] * y[1])

RIsFinite(x) == x[2] > 0

\* x < y for finite x and y
RLess(x, y) == x[1] * y[2] < y[1] * x[2]

\* x > 0, as a float comparison: False for nan and -inf, True for +inf
RPositive(x) == x[1] > 0

(* ------------------------- get_pr -------------------------------------- *)
\* s2 = (a*m**2 + b*m)
get_pr_s2(a, b, m) == RAdd(RMul(a, RMul(m, m)), RMul(b, m))

\* get_pr with the difference in r's denominator taken the other way round
get_pr_swapped(a, b, m) ==
    LET s2 == get_pr_s2(a, b, m)
    IN <<RDiv(RSub(s2, m), s2), RDiv(RMul(m, m), RSub(m, s2))>>

\* get_pr with r's denominator made positive: abs(s2-m)
get_pr_unsigned(a, b, m) ==
    LET s2 == get_pr_s2(a, b, m)
        d == RSub(s2, m)
    IN <<RDiv(d, s2), RDiv(RMul(m, m), IF d[1] < 0 THEN <<-d[1], d[2]>> ELSE d)>>

\* get_pr(a, b, m): p = (s2-m)/s2; r = (m**2)/(s2-m); return p, r
get_pr(a, b, m) ==
    LET s2 == get_pr_s2(a, b, m)
    IN <<RDiv(RSub(s2, m), s2), RDiv(RMul(m, m), RSub(s2, m))>>

(* ------------------------- the Tree object ----------------------------- *)
\* most branches of a tree
MaxBranches == 3
\* longest pseudotime duration of one branch
MaxBranchTime == 3

\* the durations tried for a branch: the shortest and the longest
BranchTimes == {1, MaxBranchTime}

\* A tree is [branches, time, topology]: the branch count, the pseudotime
\* length of each branch, and the (parent, child) pairs. Branch 0 is the
\* root and every other branch has one parent with a smaller index.
TreeShapes(B) ==
    {[b \in 1 .. (B - 1) |-> pr[b]] :
        pr \in {f \in [1 .. (B - 1) -> 0 .. (B - 1)] :
                    \A b \in 1 .. (B - 1) : f[b] < b}}

\* the edges of a shape, listed by child index
EdgeList(shape, B) == [i \in 1 .. (B - 1) |-> <<shape[i], i>>]

Trees ==
    UNION {{[branches |-> B, time |-> tm, topology |-> EdgeList(sh, B)] :
                tm \in [0 .. (B - 1) -> BranchTimes],
                sh \in TreeShapes(B)} :
           B \in 1 .. MaxBranches}

TreeParent(tree, b) ==
    (CHOOSE i \in DOMAIN tree.topology : tree.topology[i][2] = b) 

\* tree.branch_times(): the absolute [start, end] interval of every branch;
\* the root starts at 0 and a child starts right after its parent ends
RECURSIVE BranchStart(_, _)
BranchStart(tree, b) ==
    IF b = 0 THEN 0
    ELSE LET pa == tree.topology[TreeParent(tree, b)][1]
         IN BranchStart(tree, pa) + tree.time[pa]

branch_times(tree) ==
    [b \in 0 .. (tree.branches - 1) |->
        <<BranchStart(tree, b), BranchStart(tree, b) + tree.time[b] - 1>>]

\* the set S of integers as an increasing sequence indexed from 0
RECURSIVE SortedFrom(_)
SortedFrom(S) ==
    IF S = {} THEN <<>>
    ELSE LET lo == CHOOSE x \in S : \A y \in S : x <= y
         IN <<lo>> \o SortedFrom(S \ {lo})

\* tree.populate_timezone(): the pseudotime intervals between consecutive
\* branch boundaries, in increasing order, indexed from 0; during one
\* timezone the set of active branches does not change
populate_timezone(tree) ==
    LET bt == branch_times(tree)
        cuts == SortedFrom({bt[b][1] : b \in DOMAIN bt}
                           \cup {bt[b][2] + 1 : b \in DOMAIN bt})
    IN [i \in 0 .. (Len(cuts) - 2) |-> <<cuts[i + 1], cuts[i + 2] - 1>>]

(* ------------------------- branch lookup ------------------------------- *)
\* belongs_to without the test of the interval's end
belongs_to_start_only(z, br) == (z[1] >= br[1])

\* belongs_to(timezone, branch)
belongs_to(z, br) == (z[1] >= br[1]) /\ (z[2] <= br[2])

\* assign_branches(branch_times, timezone): for every timezone index the
\* branches the timezone belongs to (a defaultdict: an index with no branch
\* has no entry)
assign_branches(bt, tz) ==
    LET res == [i \in DOMAIN tz |-> {b \in DOMAIN bt : belongs_to(tz[i], bt[b])}]
    IN [i \in {j \in DOMAIN tz : res[j] # {}} |-> res[i]]

\* assignments[b] on the defaultdict(list): a missing key gives []
AssignmentsGet(asg, b) == IF b \in DOMAIN asg THEN asg[b] ELSE {}

\* what pick_branch returns when rng.choice raises IndexError: None
None == -1

\* the index pick_branch's scan stops at: the first timezone whose interval
\* contains t, or -1
PickTimezone(t, tz) ==
    LET hits == {i \in DOMAIN tz : t >= tz[i][1] /\ t <= tz[i][2]}
    IN IF hits = {} THEN -1
       ELSE CHOOSE i \in hits : \A j \in hits : i <= j

\* pick_branch(t, timezone, assignments): the values it can return
pick_branch(t, tz, asg) ==
    LET possibilities == AssignmentsGet(asg, PickTimezone(t, tz))
    IN IF possibilities = {} THEN {None} ELSE possibilities

(* ------------------------- simulate_W ---------------------------------- *)
\* the values one step of a diffusion trajectory can take (grid units)
DiffusionValues == {0, 1}

\* diffusion(T): a trajectory of length T; every value sequence is possible
diffusion(T) == [0 .. (T - 1) -> DiffusionValues]

\* n*cov(x, y), n*var(x): the numerator and the squared denominator factors
\* of scipy.stats.pearsonr over two rows of length n
PearsonCov(x, y) ==
    LET D == DOMAIN x
        n == Cardinality(D)
    IN n * SumOver([t \in D |-> x[t] * y[t]], D) - SumOver(x, D) * SumOver(y, D)

PearsonVar(x) == PearsonCov(x, x)

\* pearsonr(x, y)[0] > cutoff, cutoff = c[1]/c[2] with c[2] > 0.
\* A constant row gives nan, and nan > cutoff is False.
PearsonAbove(x, y, c) ==
    LET cov == PearsonCov(x, y)
        vv == PearsonVar(x) * PearsonVar(y)
    IN IF vv = 0 THEN FALSE
       ELSE IF c[1] >= 0
            THEN cov > 0 /\ cov * cov * c[2] * c[2] > c[1] * c[1] * vv
            ELSE cov >= 0 \/ cov * cov * c[2] * c[2] < c[1] * c[1] * vv

\* abs(pearsonr(x, y)[0]) > cutoff, for a cutoff >= 0; nan is not above
PearsonAbsAbove(x, y, c) ==
    LET cov == PearsonCov(x, y)
        vv == PearsonVar(x) * PearsonVar(y)
    IN vv # 0 /\ cov * cov * c[2] * c[2] > c[1] * c[1] * vv

\* test_correlation(W, k, cutoff): W has K rows, indexed as python does
test_correlation(Wm, kk, c, KK) ==
    \E i \in Range(kk - 1, 0) :
        PearsonAbove(Wm[PyIndex(kk, KK)], Wm[PyIndex(i, KK)], c)

\* W with the rows after row kk still zero, as when column kk is tested
FilledUpTo(Wm, kk) ==
    [i \in DOMAIN Wm |->
        IF i <= kk THEN Wm[i] ELSE [t \in DOMAIN Wm[i] |-> 0]]

\* the matrices simulate_W(T, K, cutoff) can return, before transposition:
\* every row was accepted by test_correlation when it was drawn
simulate_W_results(T, K, c) ==
    {Wm \in [0 .. (K - 1) -> diffusion(T)] :
        \A kk \in 0 .. (K - 1) :
            ~test_correlation(FilledUpTo(Wm, kk), kk, c, K)}

\* np.transpose(W)
np_transpose(Wm, K, T) ==
    [t \in 0 .. (T - 1) |-> [i \in 0 .. (K - 1) |-> Wm[i][t]]]

(* ------------------------- create_groups, simulate_H ------------------- *)
\* np.random.permutation(G): the orderings of 0 .. G-1
np_permutation(G) ==
    {q \in [1 .. G -> 0 .. (G - 1)] :
        \A i, j \in 1 .. G : q[i] = q[j] => i = j}

\* the same walk stopping one value early: the last value is never placed
RECURSIVE DrawnButLast(_, _, _, _)
DrawnButLast(it, x, part, i) ==
    IF i >= Len(it) THEN <<>>
    ELSE (IF x[i] = part THEN <<it[i]>> ELSE <<>>)
            \o DrawnButLast(it, x, part, i + 1)

\* the values of `it` whose draw x fell on `part`, in order
RECURSIVE Drawn(_, _, _, _)
Drawn(it, x, part, i) ==
    IF i > Len(it) THEN <<>>
    ELSE (IF x[i] = part THEN <<it[i]>> ELSE <<>>) \o Drawn(it, x, part, i + 1)

\* random_partition(k, iterable): every value goes to the list
\* rng.randrange(k) names
random_partition(kk, it) ==
    {[part \in 0 .. (kk - 1) |-> Drawn(it, x, part, 1)] :
        x \in [1 .. Len(it) -> 0 .. (kk - 1)]}

\* create_groups(K, G): two random partitions of two permutations of the
\* genes, zipped and chained
create_groups(K, G) ==
    {[z \in 0 .. (K - 1) |-> groups1[z] \o groups2[z]] :
        groups1 \in UNION {random_partition(K, q) : q \in np_permutation(G)},
        groups2 \in UNION {random_partition(K, q) : q \in np_permutation(G)}}

\* the weights one draw of beta.rvs(a, b) gives (grid units)
BetaValues == {1}

\* the sum of the weights w[j] at the places of list where gene g stands
RECURSIVE WeightOf(_, _, _, _)
WeightOf(list, w, g, j) ==
    IF j > Len(list) THEN 0
    ELSE (IF list[j] = g THEN w[j] ELSE 0) + WeightOf(list, w, g, j + 1)

\* simulate_H(K, G, groups): H[k][g] += beta.rvs(a, b) for g in groups[k]
simulate_H(K, G, groups) ==
    {[i \in 0 .. (K - 1) |-> [g \in 0 .. (G - 1) |->
            WeightOf(groups[i], w[i], g, 1)]] :
        w \in [0 .. (K - 1) -> [1 .. G + G -> BetaValues]]}

\* np.dot(W, H) for W of shape T x K and H of shape K x G
np_dot(Wt, H, T, K, G) ==
    [t \in 0 .. (T - 1) |-> [g \in 0 .. (G - 1) |->
        SumOver([i \in 0 .. (K - 1) |-> Wt[t][i] * H[i][g]], 0 .. (K - 1))]]

(* ------------------------- bifurc_adjust ------------------------------- *)
\* bifurc_adjust(Mu_bif, Mu): dif = Mu_bif[0] - Mu[-1]; return Mu_bif - dif
bifurc_adjust(Mu_bif, Mu) ==
    LET last == PyIndex(-1, Cardinality(DOMAIN Mu))
        dif == [g \in DOMAIN Mu_bif[0] |-> Mu_bif[0][g] - Mu[last][g]]
    IN [t \in DOMAIN Mu_bif |-> [g \in DOMAIN Mu_bif[t] |->
            Mu_bif[t][g] - dif[g]]]

VARIABLES
    wT,        \* simulate_W: argument T
    wK,        \* simulate_W: argument K
    cutoff,    \* simulate_W: argument cutoff, <<numerator, denominator>>
    maxloops,  \* simulate_W: argument maxloops
    W,         \* simulate_W: the K x T matrix being filled
    k,         \* simulate_W: index of the column being drawn
    loops,     \* simulate_W: rejections since the last accepted column
    wpc        \* simulate_W: "loop", "done" (returned transpose(W)),
               \* "TypeError" (the restart call simulate_W(T) lacks K)

VARIABLES
    ga,        \* get_pr: argument a, a rational <<numerator, denominator>>
    gb,        \* get_pr: argument b
    gm,        \* get_pr: argument m
    gp,        \* get_pr: the returned p
    gr,        \* get_pr: the returned r
    gpc        \* get_pr: "call", "done"

VARIABLES
    tree,          \* sampling: the Tree argument
    means,         \* sampling: tree.means, one matrix per branch
    sG,            \* sampling: argument G
    n_factor,      \* sampling: argument n_factor
    sample_times,  \* sampling: argument sample_times, indexed from 0
    alpha,         \* sampling: argument alpha
    beta,          \* sampling: argument beta
    X,             \* sampling: the count matrix
    labels,        \* sampling: per-cell pseudotime labels
    branch,        \* sampling: per-cell branch labels
    sn,            \* sampling: the cell index n
    sg,            \* sampling: the gene index g
    st,            \* sampling: t, the timestamp of cell n
    sb,            \* sampling: b, what pick_branch returned for cell n
    T_off,         \* sampling: the offset of branch b
    mu,            \* sampling: the mean last fetched
    picked,        \* history: what pick_branch returned for every cell
    spc            \* sampling: "pick", "offset", "gene", "done" (returned),
                   \* "LookupError", "ValueError" (raised)

VARIABLES
    ctree,     \* simulate_branching_data: the Tree argument
    cG,        \* simulate_branching_data: argument G
    Ms,        \* simulate_branching_data: the mean matrix of every branch
    ci,        \* simulate_branching_data: i of `for i in range(branches)`
    ce,        \* simulate_branching_data: place in `for b in tree.topology`
    cpc        \* simulate_branching_data: "check", "generate", "adjust",
               \* "done" (returned Ms, Ws), "exit" (sys.exit(1)),
               \* "IndexError" (raised)

cVars == <<ctree, cG, Ms, ci, ce, cpc>>

VARIABLES
    pK,        \* create_groups: argument K
    pG,        \* create_groups: argument G
    pgroups,   \* create_groups: the returned list of K lists, from 0
    ppc        \* create_groups: "call", "done"

pVars == <<pK, pG, pgroups, ppc>>

vars == <<wT, wK, cutoff, maxloops, W, k, loops, wpc,
          ga, gb, gm, gp, gr, gpc, ctree, cG, Ms, ci, ce, cpc,
          pK, pG, pgroups, ppc,
          tree, means, sG, n_factor, sample_times, alpha, beta, X, labels,
          branch, sn, sg, st, sb, T_off, mu, picked, spc>>

sVars == <<tree, means, sG, n_factor, sample_times, alpha, beta, X, labels,
           branch, sn, sg, st, sb, T_off, mu, picked, spc>>

gVars == <<ga, gb, gm, gp, gr, gpc>>

wVars == <<wT, wK, cutoff, maxloops, W, k, loops, wpc>>

\* the cutoffs tried: the default 0.2, and 1/2
Cutoffs == {<<1, 5>>, <<1, 2>>}

\* simulate_W entry: W = np.zeros((K, T)); k = 0; loops = 0
InitW ==
    /\ wT \in 2 .. MaxT
    /\ wK \in 1 .. MaxK
    /\ cutoff \in Cutoffs
    /\ maxloops \in 0 .. MaxMaxloops
    /\ W = [i \in 0 .. (wK - 1) |-> [t \in 0 .. (wT - 1) |-> 0]]
    /\ k = 0
    /\ loops = 0
    /\ wpc = "loop"

\* one pass of `while k < K` with the column accepted or rejected
simulate_W_iteration ==
    /\ wpc = "loop"
    /\ k < wK
    /\ loops <= maxloops + LoopSlack
    /\ \E d \in diffusion(wT) :
        LET W1 == [W EXCEPT ![k] = d]
            correlates == test_correlation(W1, k, cutoff, wK)
        IN /\ W' = W1
           /\ IF correlates
              THEN \* loops += 1; continue
                   /\ loops' = loops + 1
                   /\ k' = k
                   /\ wpc' = "loop"
              ELSE \* loops = 0; k += 1; then the maxloops test
                   /\ loops' = 0
                   /\ k' = k + 1
                   /\ wpc' = IF loops' > maxloops THEN "TypeError" ELSE "loop"
    /\ UNCHANGED <<wT, wK, cutoff, maxloops>>

\* the loop condition fails: return np.transpose(W)
simulate_W_return ==
    /\ wpc = "loop"
    /\ k >= wK
    /\ wpc' = "done"
    /\ UNCHANGED <<wT, wK, cutoff, maxloops, W, k, loops>>

(* ------------------------- get_pr applied ------------------------------ *)
\* the coefficients tried: the defaults alpha = 0.3 and beta = 2, and others
ACoefficients == {<<3, 10>>, <<0, 1>>, <<1, 1>>}

BCoefficients == {<<2, 1>>, <<1, 2>>, <<1, 1>>}

\* the means tried run over -MaxMean .. MaxMean, in halves
MaxMean == 3

MeanArguments == {<<n, 2>> : n \in (-2 * MaxMean) .. (2 * MaxMean)}

IdleG ==
    /\ ga = <<0, 1>> /\ gb = <<0, 1>> /\ gm = <<0, 1>>
    /\ gp = <<0, 1>> /\ gr = <<0, 1>> /\ gpc = "idle"

InitG ==
    /\ ga \in ACoefficients
    /\ gb \in BCoefficients
    /\ gm \in MeanArguments
    /\ gp = <<0, 1>>
    /\ gr = <<0, 1>>
    /\ gpc = "call"

\* p, r = get_pr(a, b, m)
get_pr_call ==
    /\ gpc = "call"
    /\ gp' = get_pr(ga, gb, gm)[1]
    /\ gr' = get_pr(ga, gb, gm)[2]
    /\ gpc' = "done"
    /\ UNCHANGED <<ga, gb, gm>>

IdleW ==
    /\ wT = 0 /\ wK = 0 /\ cutoff = <<0, 1>> /\ maxloops = 0
    /\ W = <<>> /\ k = 0 /\ loops = 0 /\ wpc = "idle"

(* ------------------------- sample_data_with_absolute_times ------------- *)
\* most genes
MaxG == 1
\* most cells: n_factor * len(sample_times)
MaxCells == 4

\* the counts one draw of the negative binomial gives: one positive count
\* stands for all of them (X starts at zero, so a written entry shows)
CountValues == {1}

\* np.repeat(sample_times, n_factor), indexed from 0
np_repeat(times, f) ==
    [n \in 0 .. (Len(times) * f - 1) |-> times[(n \div f) + 1]]

\* where the last branch of the tree ends
TreeEnd(tr) ==
    LET bt == branch_times(tr)
    IN CHOOSE e \in {bt[b][2] : b \in DOMAIN bt} :
            \A b \in DOMAIN bt : bt[b][2] <= e

\* the sample times tried: the runs s, s+1, ... of consecutive pseudotimes
\* that start inside the tree's pseudotime or one beyond its end
SampleTimeLists(tr, len) ==
    {[i \in 1 .. len |-> s + i - 1] : s \in 0 .. (TreeEnd(tr) + 1)}

\* the mean matrices tried: the matrix of branch b has its rows apart by 1,
\* starts at base, and has time[b] rows or (short = 1) one row fewer
MeanMatrices(tr, G, base, short) ==
    [b \in 0 .. (tr.branches - 1) |->
        LET rows == IF tr.time[b] - short >= 1 THEN tr.time[b] - short ELSE 1
        IN [i \in 0 .. (rows - 1) |-> [g \in 0 .. (G - 1) |-> base + i + g]]]

\* the settings tried, [base, short, alpha, beta]: means from -1 or from 1,
\* full or short matrices, the default coefficients (0.3, 2) or (0.3, 0.5)
Settings ==
    {[base |-> -1, short |-> 0, alpha |-> <<3, 10>>, beta |-> <<2, 1>>],
     [base |-> 1, short |-> 1, alpha |-> <<3, 10>>, beta |-> <<2, 1>>],
     [base |-> 1, short |-> 0, alpha |-> <<3, 10>>, beta |-> <<1, 2>>],
     [base |-> -1, short |-> 1, alpha |-> <<3, 10>>, beta |-> <<1, 2>>]}

\* the fetch with the fallback going to the first row
FetchMeanFirstRow(M, idx, g) ==
    LET rows == Cardinality(DOMAIN M)
    IN IF idx >= -rows /\ idx < rows
       THEN M[PyIndex(idx, rows)][g]
       ELSE M[0][g]

\* try: mu = M[t-T_off][g]  except IndexError: mu = M[-1][g]
FetchMean(M, idx, g) ==
    LET rows == Cardinality(DOMAIN M)
    IN IF idx >= -rows /\ idx < rows
       THEN M[PyIndex(idx, rows)][g]
       ELSE M[PyIndex(-1, rows)][g]

\* custm.rvs(p, r) draws only when rv_discrete's argument check passes
\* (every shape parameter > 0); otherwise it raises ValueError
rvs_argcheck(p, r) == RPositive(p) /\ RPositive(r)

IdleS ==
    /\ tree = [branches |-> 0, time |-> <<>>, topology |-> <<>>]
    /\ means = <<>> /\ sG = 0 /\ n_factor = 0 /\ sample_times = <<>>
    /\ alpha = <<0, 1>> /\ beta = <<0, 1>>
    /\ X = <<>> /\ labels = <<>> /\ branch = <<>>
    /\ sn = 0 /\ sg = 0 /\ st = 0 /\ sb = 0 /\ T_off = 0 /\ mu = 0
    /\ picked = <<>> /\ spc = "idle"

\* sample_data_with_absolute_times up to the loop over the cells
InitS ==
    /\ tree \in Trees
    /\ sG \in 0 .. MaxG
    /\ n_factor \in 1 .. MaxCells
    /\ \E len \in 1 .. MaxCells :
            /\ n_factor * len <= MaxCells
            /\ sample_times \in SampleTimeLists(tree, len)
    /\ \E s \in Settings :
            /\ means = MeanMatrices(tree, sG, s.base, s.short)
            /\ alpha = s.alpha
            /\ beta = s.beta
    /\ LET n_cells == n_factor * Len(sample_times)
       IN /\ X = [n \in 0 .. (n_cells - 1) |-> [g \in 0 .. (sG - 1) |-> 0]]
          /\ labels = [n \in 0 .. (n_cells - 1) |-> 0]
          /\ branch = [n \in 0 .. (n_cells - 1) |-> 0]
    /\ sn = 0 /\ sg = 0 /\ st = 0 /\ sb = 0 /\ T_off = 0 /\ mu = 0
    /\ picked = <<>>
    /\ spc = "pick"

timestamps == np_repeat(sample_times, n_factor)

\* for n in range(len(timestamps)): t = int(timestamps[n]);
\* b = pick_branch(t, timezone, assignments)
sample_pick ==
    /\ spc = "pick"
    /\ sn < Cardinality(DOMAIN timestamps)
    /\ LET timezone == populate_timezone(tree)
           assignments == assign_branches(branch_times(tree), timezone)
       IN \E b \in pick_branch(timestamps[sn], timezone, assignments) :
            /\ st' = timestamps[sn]
            /\ sb' = b
            /\ picked' = Append(picked, b)
    /\ spc' = "offset"
    /\ UNCHANGED <<tree, means, sG, n_factor, sample_times, alpha, beta, X,
                   labels, branch, sn, sg, T_off, mu>>

\* T_off = branching_times[b][0]; M = tree.means[b]
sample_offset ==
    /\ spc = "offset"
    /\ IF sb \in DOMAIN branch_times(tree)
       THEN /\ T_off' = branch_times(tree)[sb][1]
            /\ sg' = 0
            /\ spc' = "gene"
       ELSE \* branching_times[None]: KeyError, or IndexError on [][0]
            /\ spc' = "LookupError"
            /\ UNCHANGED <<T_off, sg>>
    /\ UNCHANGED <<tree, means, sG, n_factor, sample_times, alpha, beta, X,
                   labels, branch, sn, st, sb, mu, picked>>

\* one pass of `for g in range(G)`
sample_gene ==
    /\ spc = "gene"
    /\ sg < sG
    /\ LET m == FetchMean(means[sb], st - T_off, sg)
           pr == get_pr(alpha, beta, RInt(m))
       IN /\ mu' = m
          /\ IF rvs_argcheck(pr[1], pr[2])
             THEN /\ \E c \in CountValues :
                        X' = [X EXCEPT ![sn][sg] = c]
                  /\ labels' = [labels EXCEPT ![sn] = st]
                  /\ branch' = [branch EXCEPT ![sn] = sb]
                  /\ sg' = sg + 1
                  /\ spc' = "gene"
             ELSE /\ spc' = "ValueError"
                  /\ UNCHANGED <<X, labels, branch, sg>>
    /\ UNCHANGED <<tree, means, sG, n_factor, sample_times, alpha, beta,
                   sn, st, sb, T_off, picked>>

\* the gene loop is over: on to the next cell
sample_next_cell ==
    /\ spc = "gene"
    /\ sg >= sG
    /\ sn' = sn + 1
    /\ spc' = "pick"
    /\ UNCHANGED <<tree, means, sG, n_factor, sample_times, alpha, beta, X,
                   labels, branch, sg, st, sb, T_off, mu, picked>>

\* the loop over the cells is over: return X, labels, branch
sample_return ==
    /\ spc = "pick"
    /\ sn >= Cardinality(DOMAIN timestamps)
    /\ spc' = "done"
    /\ UNCHANGED <<tree, means, sG, n_factor, sample_times, alpha, beta, X,
                   labels, branch, sn, sg, st, sb, T_off, mu, picked>>

(* ------------------------- simulate_branching_data -------------------- *)
\* the trees tried: a parent with one child, a bifurcation, and a chain
\* 0 -> 1 -> 2 with its edges listed in either order; every branch has
\* 2 modules, and pseudotime length 2 or 3
ComposerTrees ==
    {[branches |-> 2, time |-> <<3, 2>>, modules |-> <<2, 2>>,
      topology |-> << <<0, 1>> >>],
     [branches |-> 3, time |-> <<2, 2, 2>>, modules |-> <<2, 2, 2>>,
      topology |-> << <<0, 1>>, <<0, 2>> >>],
     [branches |-> 3, time |-> <<2, 2, 2>>, modules |-> <<2, 2, 2>>,
      topology |-> << <<0, 1>>, <<1, 2>> >>],
     [branches |-> 3, time |-> <<2, 2, 2>>, modules |-> <<2, 2, 2>>,
      topology |-> << <<1, 2>>, <<0, 1>> >>],
     \* trees whose time or modules list has not one entry per branch
     [branches |-> 2, time |-> <<3, 2>>, modules |-> <<2>>,
      topology |-> << <<0, 1>> >>],
     [branches |-> 2, time |-> <<3>>, modules |-> <<2, 2>>,
      topology |-> << <<0, 1>> >>],
     [branches |-> 2, time |-> <<3, 2, 2>>, modules |-> <<2, 2, 2>>,
      topology |-> << <<0, 1>> >>]}

\* the default cutoff of simulate_W, 0.2
DefaultCutoff == <<1, 5>>

\* np.zeros((T, G))
np_zeros(T, G) == [t \in 0 .. (T - 1) |-> [g \in 0 .. (G - 1) |-> 0]]

IdleC ==
    /\ ctree = [branches |-> 0, time |-> <<>>, modules |-> <<>>,
                topology |-> <<>>]
    /\ cG = 0 /\ Ms = <<>> /\ ci = 0 /\ ce = 0 /\ cpc = "idle"

InitC ==
    /\ ctree \in ComposerTrees
    /\ cG \in 1 .. MaxG
    /\ Ms = <<>>
    /\ ci = 0
    /\ ce = 1
    /\ cpc = "check"

\* the length test passing as soon as one of the two lengths is right
lengths_match_any(tr) ==
    \E l \in {Len(tr.time), Len(tr.modules)} : l = tr.branches

\* lengths = [len(Ts), len(Ks)]; all([l == branches for l in lengths])
lengths_match(tr) ==
    \A l \in {Len(tr.time), Len(tr.modules)} : l = tr.branches

\* the lengths of Ts and Ks are compared with branches; then the containers
\* are set up: Ws = [np.zeros((Ts[i], Ks[i])) for i in range(branches)], ...,
\* Ms = [np.zeros((Ts[i], G)) for i in range(branches)]; reading Ts[i] or
\* Ks[i] beyond the end of a list raises IndexError
composer_check ==
    /\ cpc = "check"
    /\ IF ~lengths_match(ctree)
       THEN /\ cpc' = "exit"
            /\ UNCHANGED Ms
       ELSE IF Len(ctree.time) < ctree.branches
               \/ Len(ctree.modules) < ctree.branches
       THEN /\ cpc' = "IndexError"
            /\ UNCHANGED Ms
       ELSE /\ Ms' = [i \in 0 .. (ctree.branches - 1) |->
                        np_zeros(ctree.time[i + 1], cG)]
            /\ cpc' = "generate"
    /\ UNCHANGED <<ctree, cG, ci, ce>>

\* one pass of `for i in range(branches)`: W, groups, H, Mu = np.dot(W, H)
composer_generate ==
    /\ cpc = "generate"
    /\ ci < ctree.branches
    /\ LET K == ctree.modules[ci + 1]
           T == ctree.time[ci + 1]
       IN \E Wm \in simulate_W_results(T, K, DefaultCutoff) :
          \E groups \in create_groups(K, cG) :
          \E H \in simulate_H(K, cG, groups) :
             Ms' = [Ms EXCEPT ![ci] = np_dot(np_transpose(Wm, K, T), H, T, K, cG)]
    /\ ci' = ci + 1
    /\ UNCHANGED <<ctree, cG, ce, cpc>>

\* the loop over the branches is over
composer_generated ==
    /\ cpc = "generate"
    /\ ci >= ctree.branches
    /\ cpc' = "adjust"
    /\ UNCHANGED <<ctree, cG, Ms, ci, ce>>

\* one pass of `for b in tree.topology`:
\* Ms[b[1]] = bifurc_adjust(Ms[b[1]], Ms[b[0]])
composer_adjust ==
    /\ cpc = "adjust"
    /\ ce <= Len(ctree.topology)
    /\ LET b == ctree.topology[ce]
       IN Ms' = [Ms EXCEPT ![b[2]] = bifurc_adjust(Ms[b[2]], Ms[b[1]])]
    /\ ce' = ce + 1
    /\ UNCHANGED <<ctree, cG, ci, cpc>>

\* return Ms, Ws
composer_return ==
    /\ cpc = "adjust"
    /\ ce > Len(ctree.topology)
    /\ cpc' = "done"
    /\ UNCHANGED <<ctree, cG, Ms, ci, ce>>

(* ------------------------- create_groups applied ----------------------- *)
\* most genes handed to create_groups
MaxGroupGenes == 2

IdleP == pK = 0 /\ pG = 0 /\ pgroups = <<>> /\ ppc = "idle"

InitP ==
    /\ pK \in 1 .. MaxK
    /\ pG \in 0 .. MaxGroupGenes
    /\ pgroups = <<>>
    /\ ppc = "call"

\* groups = create_groups(K, G)
create_groups_call ==
    /\ ppc = "call"
    /\ pgroups' \in create_groups(pK, pG)
    /\ ppc' = "done"
    /\ UNCHANGED <<pK, pG>>

(* ------------------------- specifications ------------------------------ *)
NextW ==
    \/ simulate_W_iteration /\ UNCHANGED <<gVars, sVars, cVars, pVars>>
    \/ simulate_W_return /\ UNCHANGED <<gVars, sVars, cVars, pVars>>

InitSpecW == InitW /\ IdleG /\ IdleS /\ IdleC /\ IdleP

SpecW == InitSpecW /\ [][NextW]_vars

NextG == get_pr_call /\ UNCHANGED <<wVars, sVars, cVars, pVars>>

InitSpecG == InitG /\ IdleW /\ IdleS /\ IdleC /\ IdleP

SpecG == InitSpecG /\ [][NextG]_vars

NextS ==
    \/ sample_pick /\ UNCHANGED <<wVars, gVars, cVars, pVars>>
    \/ sample_offset /\ UNCHANGED <<wVars, gVars, cVars, pVars>>
    \/ sample_gene /\ UNCHANGED <<wVars, gVars, cVars, pVars>>
    \/ sample_next_cell /\ UNCHANGED <<wVars, gVars, cVars, pVars>>
    \/ sample_return /\ UNCHANGED <<wVars, gVars, cVars, pVars>>

InitSpecS == InitS /\ IdleW /\ IdleG /\ IdleC /\ IdleP

SpecS == InitSpecS /\ [][NextS]_vars

NextC ==
    \/ composer_check /\ UNCHANGED <<wVars, gVars, sVars, pVars>>
    \/ composer_generate /\ UNCHANGED <<wVars, gVars, sVars, pVars>>
    \/ composer_generated /\ UNCHANGED <<wVars, gVars, sVars, pVars>>
    \/ composer_adjust /\ UNCHANGED <<wVars, gVars, sVars, pVars>>
    \/ composer_return /\ UNCHANGED <<wVars, gVars, sVars, pVars>>

InitSpecC == InitC /\ IdleW /\ IdleG /\ IdleS /\ IdleP

SpecC == InitSpecC /\ [][NextC]_vars

NextP == create_groups_call /\ UNCHANGED <<wVars, gVars, sVars, cVars>>

InitSpecP == InitP /\ IdleW /\ IdleG /\ IdleS /\ IdleC

SpecP == InitSpecP /\ [][NextP]_vars

\* C1: when simulate_branching_data has returned, the first mean row of the
\* child equals the last mean row of the parent, for every edge of
\* tree.topology and every gene.
C1_ContinuityAtEveryEdge ==
    cpc = "done" =>
        \A e \in DOMAIN ctree.topology :
            LET pa == ctree.topology[e][1]
                ch == ctree.topology[e][2]
            IN \A g \in 0 .. (cG - 1) :
                Ms[ch][0][g] = Ms[pa][ctree.time[pa + 1] - 1][g]

\* C2: when simulate_W has returned, every pair of distinct columns of the
\* result has |Pearson correlation| <= cutoff.
C2_PairwiseDecorrelated ==
    wpc = "done" =>
        \A i, j \in 0 .. (wK - 1) :
            i # j => ~PearsonAbsAbove(W[i], W[j], cutoff)

\* C3: column 0 is never rejected: a pass of the loop that starts with k = 0
\* ends with k = 1.
C3_ColumnZeroAccepted ==
    [][(wpc = "loop" /\ k = 0) => k' = 1]_vars

\* C4: the count of consecutive rejections never grows beyond maxloops + 1:
\* exceeding maxloops restarts the matrix.
C4_RestartBeyondMaxloops ==
    wpc = "loop" => loops <= maxloops + 1

\* a*m + b > 1
C9_Precondition == RLess(RInt(1), RAdd(RMul(ga, gm), gb))

\* s2 > m, 0 < p < 1 and r > 0, all finite
C9_WellDefined ==
    /\ RLess(gm, get_pr_s2(ga, gb, gm))
    /\ RIsFinite(gp) /\ RPositive(gp) /\ RLess(gp, RInt(1))
    /\ RIsFinite(gr) /\ RPositive(gr)

\* C9 as stated: whenever a*m + b > 1, get_pr returns 0 < p < 1 and r > 0
\* and s2 > m.
C9_Original ==
    (gpc = "done" /\ C9_Precondition) => C9_WellDefined

\* C9 as amended: whenever m > 0 and a*m + b > 1, get_pr returns 0 < p < 1
\* and r > 0, and s2 > m.
C9_PositiveMean ==
    (gpc = "done" /\ RPositive(gm) /\ C9_Precondition) => C9_WellDefined

\* get_pr has returned for a positive mean with a*m + b > 1
C9_Witness ==
    gpc = "done" /\ RPositive(gm) /\ C9_Precondition /\ RPositive(ga)

(* ------------------------- absolute-time sampling ---------------------- *)
\* the branches whose [start, end] interval contains t
BranchesContaining(t) ==
    LET bt == branch_times(tree)
    IN {b \in DOMAIN bt : bt[b][1] <= t /\ t <= bt[b][2]}

InSomeTimezone(t) ==
    \E i \in DOMAIN populate_timezone(tree) :
        populate_timezone(tree)[i][1] <= t /\ t <= populate_timezone(tree)[i][2]

\* C5: for a timestamp inside some timezone, pick_branch chooses among
\* exactly the branches whose interval contains the timestamp, and the branch
\* it returned contains the timestamp.
C5_CandidatesContainTimestamp ==
    /\ (spc = "pick" /\ sn < Cardinality(DOMAIN timestamps)
            /\ InSomeTimezone(timestamps[sn]))
        => pick_branch(timestamps[sn], populate_timezone(tree),
                       assign_branches(branch_times(tree),
                                       populate_timezone(tree)))
           = BranchesContaining(timestamps[sn])
    /\ (spc = "offset" /\ InSomeTimezone(st)) => sb \in BranchesContaining(st)

\* a branch was picked for a timestamp that two branches contain
C5_Witness ==
    /\ spc = "offset"
    /\ InSomeTimezone(st)
    /\ Cardinality(BranchesContaining(st)) >= 2
    /\ sb \in BranchesContaining(st)

\* C6: what pick_branch returned is a valid branch index whenever the
\* sampling goes on to look up the branch's offset and means.
C6_LookupYieldsBranch ==
    spc = "offset" => sb \in DOMAIN branch_times(tree)

\* C7: the mean fetched for gene g is row t - T_off of the branch's matrix
\* when that index is within 0 .. T_b - 1 and the last row otherwise, and
\* the fetch raises nothing.
C7_MeanRowOrLastRow ==
    [][(spc = "gene" /\ sg < sG) =>
            LET M == means[sb]
                rows == Cardinality(DOMAIN M)
                idx == st - T_off
            IN /\ mu' = IF 0 <= idx /\ idx < rows THEN M[idx][sg]
                                                  ELSE M[rows - 1][sg]
               /\ spc' \in {"gene", "ValueError"}]_vars

\* a mean was fetched with the index beyond the matrix: the last row's
C7_Witness ==
    /\ spc = "gene"
    /\ sg >= 1
    /\ st - T_off >= Cardinality(DOMAIN means[sb])
    /\ mu = means[sb][Cardinality(DOMAIN means[sb]) - 1][sg - 1]

\* s2 = alpha*m^2 + beta*m is not above m
C8_VarianceNotAboveMean(m) ==
    (alpha[1] * m * m * beta[2] + beta[1] * m * alpha[2])
        <= m * alpha[2] * beta[2]

\* C8: a fetched mean with s2 <= mu ends the sampling with an error at once:
\* no count is written for it, and nothing is returned afterwards.
C8_UndefinedParametersFail ==
    [][/\ (spc = "gene" /\ sg < sG /\ C8_VarianceNotAboveMean(mu'))
            => (spc' = "ValueError" /\ X' = X)
       /\ (spc = "ValueError" => spc' = "ValueError")]_vars

\* the sampling has failed on a mean with s2 <= mu
C8_Witness ==
    spc = "ValueError" /\ C8_VarianceNotAboveMean(mu)

\* C10: on return there are n_factor * len(sample_times) cells, the labels
\* are the sample times each repeated n_factor times, and branch[n] is the
\* branch picked for cell n.
C10_LabelsOnReturn ==
    spc = "done" =>
        /\ DOMAIN X = 0 .. (n_factor * Len(sample_times) - 1)
        /\ DOMAIN labels = DOMAIN X /\ DOMAIN branch = DOMAIN X
        /\ \A n \in DOMAIN X :
                /\ labels[n] = sample_times[(n \div n_factor) + 1]
                /\ branch[n] = picked[n + 1]

(* ------------------------- the length check ---------------------------- *)
\* len(tree.time) != tree.branches or len(tree.modules) != tree.branches
C11_LengthMismatch ==
    Len(ctree.time) # ctree.branches \/ Len(ctree.modules) # ctree.branches

\* C11: once the length check is past, simulate_branching_data has exited
\* (status 1) with no matrix generated exactly when len(tree.time) or
\* len(tree.modules) differs from tree.branches; it never returns then, and
\* with both lengths right it has not exited.
C11_AbortOnLengthMismatch ==
    (cpc \notin {"idle", "check"}) =>
        /\ C11_LengthMismatch => (cpc = "exit" /\ Ms = <<>>)
        /\ ~C11_LengthMismatch => cpc # "exit"

\* the run has exited on a tree whose time list is right and whose modules
\* list is short
C11_Witness ==
    /\ cpc = "exit"
    /\ Len(ctree.time) = ctree.branches
    /\ Len(ctree.modules) # ctree.branches

(* ------------------------- gene groups -------------------------------- *)
\* how often gene g is listed in the K lists together
C12_Listings(g) ==
    Cardinality({zj \in {<<z, j>> : z \in DOMAIN pgroups, j \in 1 .. (pG + pG)} :
                    zj[2] <= Len(pgroups[zj[1]]) /\ pgroups[zj[1]][zj[2]] = g})

\* C12: create_groups(K, G) returns K lists, every listed index lies in
\* 0 .. G-1, and every gene of 0 .. G-1 is listed exactly twice in all (so
\* at least once).
C12_GroupsCoverGenes ==
    ppc = "done" =>
        /\ DOMAIN pgroups = 0 .. (pK - 1)
        /\ \A z \in DOMAIN pgroups : \A j \in 1 .. Len(pgroups[z]) :
                pgroups[z][j] \in 0 .. (pG - 1)
        /\ \A z \in DOMAIN pgroups : Len(pgroups[z]) <= pG + pG
        /\ \A g \in 0 .. (pG - 1) : C12_Listings(g) = 2

\* create_groups has returned, for several genes and modules, lists where
\* one gene stands twice in one list and one list is empty
C12_Witness ==
    /\ ppc = "done" /\ pK >= 2 /\ pG >= 2
    /\ \E z \in DOMAIN pgroups :
            /\ Len(pgroups[z]) >= 2
            /\ \E i, j \in 1 .. Len(pgroups[z]) :
                    i # j /\ pgroups[z][i] = pgroups[z][j]
    /\ \E z \in DOMAIN pgroups : pgroups[z] = <<>>

=============================================================================
